---- MODULE Spec2Model ----
(***************************************************************************)
(* Model of libretro-common/streams/file_stream.c: the RFILE handle, its   *)
(* three access strategies (buffered FILE*, raw descriptor, read-only      *)
(* memory map) and the public filestream_* operations.                     *)
(*                                                                         *)
(* Build modelled: POSIX, HAVE_MMAP defined.  size_t / uint64_t are words  *)
(* of WordBits bits, ssize_t / int64_t / off_t / long are the signed words *)
(* of the same width; all arithmetic the code does on them wraps the way   *)
(* the C types do.                                                         *)
(***************************************************************************)
EXTENDS Integers, Sequences, FiniteSets, TLC

(* ------------------------------ bounds --------------------------------- *)
WordBits == 3
MaxFileLen == 2

(* --------------------------- integer types ------------------------------ *)
ModU == 2 ^ WordBits
MaxU == ModU - 1
MaxS == 2 ^ (WordBits - 1) - 1
MinS == -(MaxS + 1)
ToU(x) == x % ModU
ToS(x) == LET u == x % ModU IN IF u > MaxS THEN u - ModU ELSE u
Min(a, b) == IF a < b THEN a ELSE b
Max(a, b) == IF a < b THEN b ELSE a

(* ------------------------- program constants ---------------------------- *)
vfs_error_return_value == -1
EOF == -1
NULL == 0
PTR == 1
MAP_FAILED == -1
RFILE_HINT_UNBUFFERED == "RFILE_HINT_UNBUFFERED"
RETRO_VFS_FILE_ACCESS_HINT_MEMORY_MAP == "RETRO_VFS_FILE_ACCESS_HINT_MEMORY_MAP"
RETRO_VFS_FILE_ACCESS_READ == "READ"
RETRO_VFS_FILE_ACCESS_WRITE == "WRITE"
RETRO_VFS_FILE_ACCESS_READ_WRITE == "READ_WRITE"
RETRO_VFS_FILE_ACCESS_UPDATE_EXISTING == "UPDATE_EXISTING"
SEEK_SET == "SEEK_SET"
SEEK_CUR == "SEEK_CUR"
SEEK_END == "SEEK_END"
MODE_STR_READ_UNBUF == "rb"
MODE_STR_WRITE_UNBUF == "wb"
MODE_STR_WRITE_PLUS == "w+"
NoModeStr == "NULL"
O_RDONLY == "O_RDONLY"
O_WRONLY_CREAT_TRUNC == "O_WRONLY|O_CREAT|O_TRUNC"
O_RDWR == "O_RDWR"

Modes == {RETRO_VFS_FILE_ACCESS_READ, RETRO_VFS_FILE_ACCESS_WRITE,
          RETRO_VFS_FILE_ACCESS_READ_WRITE, RETRO_VFS_FILE_ACCESS_UPDATE_EXISTING}
HintSets == SUBSET {RFILE_HINT_UNBUFFERED, RETRO_VFS_FILE_ACCESS_HINT_MEMORY_MAP}
Whences == {SEEK_SET, SEEK_CUR, SEEK_END}

(* ---------------------------- input domains ----------------------------- *)
\* file bytes: newline, a letter, and 0xFF; 0 fills holes left by writes
Bytes == {10, 97, 255}
SeqsUpTo(S, n) == UNION {[1..k -> S] : k \in 0..n}
Files == SeqsUpTo(Bytes, MaxFileLen)
WriteBufs == {<<>>, <<97>>, <<255, 10>>}
Lens == {0, 1, 2, MaxU}
Offsets == {-1, 0, 1, MaxS}
FdValues == {0, 3}
GetsLens == {1, 3}
PutcChars == {97}

(* ------------------------------- state ---------------------------------- *)
VARIABLES
    stream_ptr,   \* the caller's RFILE*: NULL or PTR
    stream,       \* the RFILE struct behind stream_ptr
    file,         \* bytes of the file at the path
    fpos,         \* position indicator of the FILE* stream->fp
    fdpos,        \* file offset of the descriptor stream->fd
    acc,          \* access of the open stream/descriptor: "r", "w", "rw", "none";
                  \* "leaked": still open, and no handle holds it any more
    seekable,     \* the path is a regular file (FALSE: a FIFO, seeks fail)
    call,         \* the last public call and its arguments
    ret,          \* its return value
    out,          \* bytes it stored into the caller's destination buffer
    released,     \* the releases made by the last call, in order
    ub,           \* the last call executed undefined behaviour
    crashed,      \* the process was terminated by it
    filestream_cb, \* the globals filestream_*_cb: NULL or the host's function
    trip          \* history: how far a write-at-the-start, rewind, read sequence
                  \* has come, and the bytes that were written

vars == <<stream_ptr, stream, file, fpos, fdpos, acc, seekable, call, ret, out,
          released, ub, crashed, filestream_cb, trip>>

\* struct RFILE right after calloc(1, sizeof(*stream))
BlankRFILE ==
    [error_flag |-> FALSE, fd |-> 0, hints |-> {}, size |-> 0,
     mappos |-> 0, mapsize |-> 0, buf |-> NULL, fp |-> NULL, mapped |-> NULL]

\* the memory the operations act on, bundled so that they compose
World ==
    [ptr |-> stream_ptr, s |-> stream, file |-> file, fpos |-> fpos,
     fdpos |-> fdpos, acc |-> acc, seekable |-> seekable,
     rel |-> <<>>, ub |-> FALSE]

R(w, r, d) == [w |-> w, ret |-> r, data |-> d]
NoCall ==
    [op |-> "none", s_null |-> FALSE, len |-> 0, offset |-> 0, whence |-> SEEK_SET,
     mode |-> RETRO_VFS_FILE_ACCESS_READ, hints |-> {}, data |-> <<>>,
     \* every public operation calls its *_impl or the C library itself;
     \* none of them reads a filestream_*_cb
     via |-> "impl"]
NoTrip == [stage |-> "none", data |-> <<>>]

(* --------------------------- VFS initialization ------------------------- *)
CallbackNames ==
    {"get_path", "open", "close", "size", "tell", "seek", "read", "write",
     "flush", "delete"}
NoCallbacks == [n \in CallbackNames |-> NULL]

\* version_ok: required_interface_version >= FILESTREAM_REQUIRED_VFS_VERSION;
\* iface: NULL, or PTR for an interface with every member set
filestream_vfs_init(version_ok, iface) ==
    IF ~version_ok \/ iface = NULL THEN NoCallbacks
    ELSE [n \in CallbackNames |-> iface]

(* --------------------- C library and system calls ----------------------- *)
\* bytes of f after data is stored at offset pos (holes read as 0)
WriteAt(f, pos, data) ==
    IF Len(data) = 0 THEN f
    ELSE [i \in 1..Max(Len(f), pos + Len(data)) |->
            IF i > pos /\ i <= pos + Len(data) THEN data[i - pos]
            ELSE IF i <= Len(f) THEN f[i] ELSE 0]

ReadAt(f, pos, n) ==
    LET k == Min(n, Max(0, Len(f) - pos)) IN SubSeq(f, pos + 1, pos + k)

SeekTarget(cur, len, offset, whence) ==
    (CASE whence = SEEK_SET -> 0 [] whence = SEEK_CUR -> cur [] OTHER -> len) + offset

\* a FILE* of NULL handed to stdio is undefined behaviour
fseek(w, offset, whence) ==
    IF w.s.fp = NULL THEN R([w EXCEPT !.ub = TRUE], -1, <<>>)
    ELSE LET t == SeekTarget(w.fpos, Len(w.file), offset, whence) IN
         IF ~w.seekable \/ t < 0 \/ t > MaxS THEN R(w, -1, <<>>)
         ELSE R([w EXCEPT !.fpos = t], 0, <<>>)

ftell(w) ==
    IF w.s.fp = NULL THEN R([w EXCEPT !.ub = TRUE], -1, <<>>)
    ELSE IF ~w.seekable THEN R(w, -1, <<>>)
    ELSE R(w, w.fpos, <<>>)

fread(w, len) ==
    IF w.s.fp = NULL THEN R([w EXCEPT !.ub = TRUE], 0, <<>>)
    ELSE IF w.acc \notin {"r", "rw"} THEN R(w, 0, <<>>)
    ELSE LET d == ReadAt(w.file, w.fpos, len) IN
         R([w EXCEPT !.fpos = @ + Len(d)], Len(d), d)

fwrite(w, s_null, data) ==
    IF w.s.fp = NULL \/ (s_null /\ Len(data) > 0)
    THEN R([w EXCEPT !.ub = TRUE], 0, <<>>)
    ELSE IF w.acc \notin {"w", "rw"} THEN R(w, 0, <<>>)
    ELSE R([w EXCEPT !.file = WriteAt(@, w.fpos, data), !.fpos = @ + Len(data)],
           Len(data), <<>>)

fputc(w, c) ==
    IF w.s.fp = NULL THEN R([w EXCEPT !.ub = TRUE], EOF, <<>>)
    ELSE IF w.acc \notin {"w", "rw"} THEN R(w, EOF, <<>>)
    ELSE R([w EXCEPT !.file = WriteAt(@, w.fpos, <<c % 256>>), !.fpos = @ + 1],
           c % 256, <<>>)

\* fflush(NULL) flushes every output stream; flush_ok is whether the
\* pending output could be written
fflush(w, flush_ok) ==
    IF w.s.fp # NULL /\ w.acc \in {"w", "rw"} /\ ~flush_ok THEN R(w, EOF, <<>>)
    ELSE R(w, 0, <<>>)

lseek(w, offset, whence) ==
    LET t == SeekTarget(w.fdpos, Len(w.file), offset, whence) IN
    IF w.acc = "none" \/ ~w.seekable \/ t < 0 \/ t > MaxS THEN R(w, -1, <<>>)
    ELSE R([w EXCEPT !.fdpos = t], t, <<>>)

read(w, len) ==
    IF w.acc \notin {"r", "rw"} THEN R(w, -1, <<>>)
    ELSE LET d == ReadAt(w.file, w.fdpos, len) IN
         R([w EXCEPT !.fdpos = @ + Len(d)], Len(d), d)

write(w, s_null, data) ==
    IF w.acc \notin {"w", "rw"} \/ (s_null /\ Len(data) > 0) THEN R(w, -1, <<>>)
    ELSE R([w EXCEPT !.file = WriteAt(@, w.fdpos, data), !.fdpos = @ + Len(data)],
           Len(data), <<>>)

(* ------------------------- callback wrappers ---------------------------- *)
Unbuffered(s) == RFILE_HINT_UNBUFFERED \in s.hints
MemoryMap(s) == RETRO_VFS_FILE_ACCESS_HINT_MEMORY_MAP \in s.hints

\* the mapped branch of filestream_read_impl; the window is the first
\* mapsize bytes of the file, a copy that leaves it is undefined behaviour
\* mapped_read without the clamp of len to the bytes left in the window
mapped_read_unclamped(w, len) ==
    IF w.s.mappos > w.s.mapsize THEN R(w, -1, <<>>)
    ELSE LET n == len
             window == SubSeq(w.file, 1, Min(w.s.mapsize, Len(w.file)))
             d == ReadAt(window, w.s.mappos, n)
         IN R([w EXCEPT !.s.mappos = ToU(@ + n),
                        !.ub = @ \/ (w.s.mappos + n > w.s.mapsize)],
              ToS(n), d)

mapped_read(w, len) ==
    IF w.s.mappos > w.s.mapsize THEN R(w, -1, <<>>)
    ELSE LET n == IF ToU(w.s.mappos + len) > w.s.mapsize
                  THEN ToU(w.s.mapsize - w.s.mappos) ELSE len
             window == SubSeq(w.file, 1, Min(w.s.mapsize, Len(w.file)))
             d == ReadAt(window, w.s.mappos, n)
         IN R([w EXCEPT !.s.mappos = ToU(@ + n),
                        !.ub = @ \/ (w.s.mappos + n > w.s.mapsize)],
              ToS(n), d)

filestream_read_impl(w, s_null, len) ==
    IF w.ptr = NULL \/ s_null THEN R(w, -1, <<>>)
    ELSE IF ~Unbuffered(w.s) THEN fread(w, len)
    ELSE IF MemoryMap(w.s) THEN mapped_read(w, len)
    ELSE read(w, len)

filestream_flush_impl(w, flush_ok) ==
    IF w.ptr = NULL THEN R(w, -1, <<>>)
    ELSE fflush(w, flush_ok)

filestream_file_size_impl(w) ==
    IF w.ptr = NULL THEN R(w, 0, <<>>)
    ELSE R(w, w.s.size, <<>>)

\* the mapped branch of filestream_seek_impl
mapped_seek(w, offset, whence) ==
    LET cur == ToU(w.s.mappos + offset)
        end == ToU(w.s.mapsize + offset)
        fail == CASE whence = SEEK_SET -> offset < 0
                  [] whence = SEEK_CUR -> \/ (offset < 0 /\ cur > w.s.mappos)
                                          \/ (offset > 0 /\ cur < w.s.mappos)
                  [] OTHER -> end < w.s.mapsize
        pos == CASE whence = SEEK_SET -> offset
                 [] whence = SEEK_CUR -> cur
                 [] OTHER -> end
    IN IF fail THEN R(w, -1, <<>>)
       ELSE R([w EXCEPT !.s.mappos = pos], ToS(pos), <<>>)

\* descriptor_seek without the test of lseek's result
descriptor_seek_unchecked(w, offset, whence) ==
    R(lseek(w, offset, whence).w, 0, <<>>)

\* the descriptor branch of filestream_seek_impl
descriptor_seek(w, offset, whence) ==
    LET r == lseek(w, offset, whence) IN
    IF r.ret < 0 THEN R(w, -1, <<>>) ELSE R(r.w, 0, <<>>)

filestream_seek_impl(w, offset, whence) ==
    IF w.ptr = NULL THEN R(w, -1, <<>>)
    ELSE IF ~Unbuffered(w.s) THEN fseek(w, offset, whence)
    ELSE IF w.s.mapped # NULL /\ MemoryMap(w.s) THEN mapped_seek(w, offset, whence)
    ELSE descriptor_seek(w, offset, whence)

filestream_tell_impl(w) ==
    IF w.ptr = NULL THEN R(w, -1, <<>>)
    ELSE IF ~Unbuffered(w.s) THEN ftell(w)
    ELSE IF w.s.mapped # NULL /\ MemoryMap(w.s) THEN R(w, ToS(w.s.mappos), <<>>)
    ELSE IF lseek(w, 0, SEEK_CUR).ret < 0 THEN R(w, -1, <<>>)
    ELSE R(w, 0, <<>>)

\* filestream_write_impl taking a write on a mapped handle for an empty
\* write instead of an error
filestream_write_impl_mapped_noop(w, s_null, data) ==
    IF w.ptr = NULL THEN R(w, -1, <<>>)
    ELSE IF ~Unbuffered(w.s) THEN fwrite(w, s_null, data)
    ELSE IF MemoryMap(w.s) THEN R(w, 0, <<>>)
    ELSE write(w, s_null, data)

filestream_write_impl(w, s_null, data) ==
    IF w.ptr = NULL THEN R(w, -1, <<>>)
    ELSE IF ~Unbuffered(w.s) THEN fwrite(w, s_null, data)
    ELSE IF MemoryMap(w.s) THEN R(w, -1, <<>>)
    ELSE write(w, s_null, data)

(* -------------------------- public operations --------------------------- *)
\* set_error_flag storing the comparison itself, which clears the flag on
\* every call that does not fail
set_error_flag_assigned(w, output) ==
    IF w.ptr = NULL
    THEN (IF output = vfs_error_return_value THEN [w EXCEPT !.ub = TRUE] ELSE w)
    ELSE [w EXCEPT !.s.error_flag = (output = vfs_error_return_value)]

\* "if (output == vfs_error_return_value) stream->error_flag = true;"
\* the store goes through stream without a null check
set_error_flag(w, output) ==
    IF output # vfs_error_return_value THEN w
    ELSE IF w.ptr = NULL THEN [w EXCEPT !.ub = TRUE]
    ELSE [w EXCEPT !.s.error_flag = TRUE]

Flagged(r) == R(set_error_flag(r.w, r.ret), r.ret, r.data)

filestream_get_size(w) == Flagged(filestream_file_size_impl(w))
filestream_seek(w, offset, whence) == Flagged(filestream_seek_impl(w, offset, whence))
filestream_tell(w) == Flagged(filestream_tell_impl(w))
filestream_read(w, s_null, len) == Flagged(filestream_read_impl(w, s_null, len))
filestream_flush(w, flush_ok) == Flagged(filestream_flush_impl(w, flush_ok))
filestream_write(w, s_null, data) == Flagged(filestream_write_impl(w, s_null, data))

\* filestream_rewind that clears the error flag and leaves the position alone
filestream_rewind_flag_only(w) ==
    IF w.ptr = NULL THEN R(w, 0, <<>>)
    ELSE R([w EXCEPT !.s.error_flag = FALSE], 0, <<>>)

filestream_rewind(w) ==
    IF w.ptr = NULL THEN R(w, 0, <<>>)
    ELSE LET w1 == filestream_seek(w, 0, SEEK_SET).w IN
         R([w1 EXCEPT !.s.error_flag = FALSE], 0, <<>>)

filestream_set_size(w) ==
    LET w1 == filestream_seek(w, 0, SEEK_SET).w
        w2 == filestream_seek(w1, 0, SEEK_END).w
        t  == filestream_tell(w2)
        w3 == [t.w EXCEPT !.s.size = t.ret]
    IN filestream_seek(w3, 0, SEEK_SET).w

filestream_eof(w) ==
    LET t == filestream_tell(w)
        e == filestream_get_size(t.w)
    IN R(e.w, IF t.ret >= e.ret THEN 1 ELSE 0, <<>>)

filestream_putc(w, c) ==
    IF w.ptr = NULL THEN R(w, EOF, <<>>)
    ELSE fputc(w, c)

filestream_getc(w, char_signed) ==
    IF w.ptr = NULL THEN R(w, 0, <<>>)
    ELSE LET r == filestream_read(w, FALSE, 1) IN
         IF r.ret = 1
         THEN R(r.w, IF char_signed /\ r.data[1] > 127 THEN r.data[1] - 256
                     ELSE r.data[1], r.data)
         ELSE R(r.w, EOF, <<>>)

\* the loop of filestream_gets: n is the remaining count, placed the bytes
\* stored so far, c the last value got
RECURSIVE gets_loop(_, _, _, _, _)
gets_loop(w, n, placed, c, char_signed) ==
    IF n = 0 THEN [w |-> w, placed |-> placed, c |-> c]
    ELSE LET g == filestream_getc(w, char_signed) IN
         IF g.ret = EOF THEN [w |-> g.w, placed |-> placed, c |-> EOF]
         ELSE IF g.ret = 10 THEN [w |-> g.w, placed |-> Append(placed, 10), c |-> 10]
         ELSE gets_loop(g.w, n - 1, Append(placed, g.ret % 256), g.ret, char_signed)

\* len is also the capacity of the destination s; a store past it, or
\* through a null s, is undefined behaviour
filestream_gets(w, s_null, len, char_signed) ==
    IF w.ptr = NULL THEN R(w, NULL, <<>>)
    ELSE LET l == gets_loop(w, ToU(len - 1), <<>>, 0, char_signed)
             over == s_null \/ Len(l.placed) + 1 > len
         IN R([l.w EXCEPT !.ub = @ \/ over],
              IF Len(l.placed) = 0 \/ l.c = EOF THEN NULL ELSE PTR, l.placed)

filestream_close(w) ==
    IF w.ptr = NULL THEN R(w, -1, <<>>)
    ELSE LET s == w.s
             r1 == IF ~Unbuffered(s)
                   THEN (IF s.fp # NULL THEN <<"fclose">> ELSE <<>>)
                   ELSE (IF ~MemoryMap(s) THEN <<>>
                         ELSE IF s.mapped = NULL THEN <<"munmap(NULL)">>
                         ELSE <<"munmap">>)
             r2 == IF s.fd > 0 THEN <<"close">> ELSE <<>>
             r3 == IF s.buf # NULL THEN <<"free(buf)">> ELSE <<>>
             shut == r1 = <<"fclose">> \/ r2 = <<"close">>
         IN R([w EXCEPT !.ptr = NULL, !.s = BlankRFILE,
                        !.acc = IF shut \/ @ = "none" THEN "none" ELSE "leaked",
                        !.fpos = 0, !.fdpos = 0, !.seekable = TRUE,
                        !.rel = @ \o r1 \o r2 \o r3 \o <<"free(stream)">>],
              0, <<>>)

(* -------------------------------- open ---------------------------------- *)
\* env: what the allocator and the system answer during this open
OpenEnvs ==
    LET all == [calloc_ok : BOOLEAN, open_ok : BOOLEAN, fd : FdValues,
                buf_ok : BOOLEAN, mmap_ok : BOOLEAN, seekable : BOOLEAN]
        \* answers that are never asked for are fixed
        dflt(e) == e.fd = 3 /\ e.buf_ok /\ e.mmap_ok /\ e.seekable
    IN {e \in all : (~e.calloc_ok => e.open_ok) /\ (~e.open_ok => dflt(e))}

fopen(w, mode_str, env) ==
    IF ~env.open_ok THEN w
    ELSE [w EXCEPT !.s.fp = PTR,
                   !.acc = CASE mode_str = MODE_STR_READ_UNBUF -> "r"
                             [] mode_str = MODE_STR_WRITE_UNBUF -> "w"
                             [] OTHER -> "rw",
                   !.file = IF mode_str = MODE_STR_READ_UNBUF THEN @ ELSE <<>>,
                   !.fpos = 0, !.seekable = env.seekable]

open(w, flags, env) ==
    IF ~env.open_ok THEN [w EXCEPT !.s.fd = -1]
    ELSE [w EXCEPT !.s.fd = env.fd,
                   !.acc = CASE flags = O_RDONLY -> "r"
                             [] flags = O_WRONLY_CREAT_TRUNC -> "w"
                             [] OTHER -> "rw",
                   !.file = IF flags = O_WRONLY_CREAT_TRUNC THEN <<>> ELSE @,
                   !.fdpos = 0, !.seekable = env.seekable]

mmap(w, env) ==
    [w EXCEPT !.s.mapped = IF env.mmap_ok THEN PTR ELSE MAP_FAILED]

\* the memory-map branch of filestream_open, after the descriptor is open
open_mapped(w) ==
    LET sk == filestream_seek([w EXCEPT !.s.mappos = 0, !.s.mapped = NULL], 0, SEEK_END)
    IN [sk.w EXCEPT !.s.mapsize = ToU(sk.ret)]

filestream_open(w0, mode, hints, env) ==
    IF ~env.calloc_ok THEN R(w0, NULL, <<>>)
    ELSE
    LET h == IF RETRO_VFS_FILE_ACCESS_HINT_MEMORY_MAP \in hints
                /\ mode = RETRO_VFS_FILE_ACCESS_READ
             THEN hints \cup {RFILE_HINT_UNBUFFERED}
             ELSE hints \ {RETRO_VFS_FILE_ACCESS_HINT_MEMORY_MAP}
        unbuf == RFILE_HINT_UNBUFFERED \in h
        mode_str ==
            CASE mode = RETRO_VFS_FILE_ACCESS_READ /\ ~unbuf -> MODE_STR_READ_UNBUF
              [] mode = RETRO_VFS_FILE_ACCESS_WRITE /\ ~unbuf -> MODE_STR_WRITE_UNBUF
              [] mode = RETRO_VFS_FILE_ACCESS_READ_WRITE /\ ~unbuf -> MODE_STR_WRITE_PLUS
              [] OTHER -> NoModeStr
        flags ==
            CASE mode = RETRO_VFS_FILE_ACCESS_WRITE /\ unbuf -> O_WRONLY_CREAT_TRUNC
              [] mode = RETRO_VFS_FILE_ACCESS_READ_WRITE /\ unbuf -> O_RDWR
              [] OTHER -> O_RDONLY
        w == [w0 EXCEPT !.ptr = PTR, !.s = [BlankRFILE EXCEPT !.hints = h]]
    IN IF ~unbuf /\ mode_str # NoModeStr
       THEN LET f == fopen(w, mode_str, env) IN
            IF f.s.fp = NULL THEN R(filestream_close(f).w, NULL, <<>>)
            ELSE R(filestream_set_size(
                      [f EXCEPT !.s.buf = IF env.buf_ok THEN PTR ELSE NULL]),
                   PTR, <<>>)
       ELSE LET o == open(w, flags, env) IN
            IF o.s.fd = -1 THEN R(filestream_close(o).w, NULL, <<>>)
            ELSE IF MemoryMap(o.s)
            THEN LET m == open_mapped(o) IN
                 IF m.s.mapsize = MaxU THEN R(filestream_close(m).w, NULL, <<>>)
                 ELSE LET m2 == mmap(filestream_rewind(m).w, env)
                          m3 == IF m2.s.mapped = MAP_FAILED
                                THEN [m2 EXCEPT !.s.hints =
                                        @ \ {RETRO_VFS_FILE_ACCESS_HINT_MEMORY_MAP}]
                                ELSE m2
                      IN R(filestream_set_size(m3), PTR, <<>>)
            ELSE R(filestream_set_size(o), PTR, <<>>)

(* ------------------------------ actions --------------------------------- *)
\* One public call c with outcome r.  A call that executed undefined
\* behaviour either goes on with the outcome computed for it or terminates
\* the process before it returns.
Strategy(s) ==
    IF ~Unbuffered(s) THEN "Buffered"
    ELSE IF MemoryMap(s) THEN "Mapped" ELSE "Unbuffered"

\* where the next byte would be read or written
Position ==
    CASE Strategy(stream) = "Buffered" -> fpos
      [] Strategy(stream) = "Mapped" -> stream.mappos
      [] OTHER -> fdpos

\* history of the calls: a write of all its bytes made at position 0, then a
\* rewind, then a read of as many bytes; any other call ends the sequence
TripAfter(c, r) ==
    IF /\ c.op = "write" /\ stream_ptr # NULL /\ ~c.s_null
       /\ Position = 0 /\ r.ret = Len(c.data) /\ ~r.w.ub
    THEN [stage |-> "written", data |-> c.data]
    ELSE IF c.op = "rewind" /\ trip.stage = "written" /\ ~r.w.ub
    THEN [stage |-> "rewound", data |-> trip.data]
    ELSE IF /\ c.op = "read" /\ trip.stage = "rewound" /\ ~c.s_null
            /\ c.len = Len(trip.data) /\ ~r.w.ub
    THEN [stage |-> "read", data |-> trip.data]
    ELSE NoTrip

Do(c, r) ==
    /\ ~crashed
    /\ Len(r.w.file) <= MaxFileLen
    /\ call' = c
    /\ ub' = r.w.ub
    /\ trip' = TripAfter(c, r)
    /\ UNCHANGED filestream_cb
    /\ \/ /\ crashed' = FALSE
          /\ stream_ptr' = r.w.ptr
          /\ stream' = r.w.s
          /\ file' = r.w.file
          /\ fpos' = r.w.fpos
          /\ fdpos' = r.w.fdpos
          /\ acc' = r.w.acc
          /\ seekable' = r.w.seekable
          /\ released' = r.w.rel
          /\ ret' = r.ret
          /\ out' = r.data
       \/ /\ r.w.ub
          /\ crashed' = TRUE
          /\ UNCHANGED <<stream_ptr, stream, file, fpos, fdpos, acc, seekable,
                         released, ret, out>>

Open ==
    /\ stream_ptr = NULL
    /\ \E mode \in Modes, hints \in HintSets, env \in OpenEnvs :
          Do([NoCall EXCEPT !.op = "open", !.mode = mode, !.hints = hints],
             filestream_open(World, mode, hints, env))

Close ==
    /\ stream_ptr # NULL
    /\ Do([NoCall EXCEPT !.op = "close"], filestream_close(World))

Read ==
    /\ stream_ptr # NULL
    /\ \E s_null \in BOOLEAN, len \in Lens :
          Do([NoCall EXCEPT !.op = "read", !.s_null = s_null, !.len = len],
             filestream_read(World, s_null, len))

Write ==
    /\ stream_ptr # NULL
    /\ \E s_null \in BOOLEAN, data \in WriteBufs :
          Do([NoCall EXCEPT !.op = "write", !.s_null = s_null, !.len = Len(data),
                          !.data = data],
             filestream_write(World, s_null, data))

Seek ==
    /\ stream_ptr # NULL
    /\ \E offset \in Offsets, whence \in Whences :
          Do([NoCall EXCEPT !.op = "seek", !.offset = offset, !.whence = whence],
             filestream_seek(World, offset, whence))

Tell ==
    /\ stream_ptr # NULL
    /\ Do([NoCall EXCEPT !.op = "tell"], filestream_tell(World))

GetSize ==
    /\ stream_ptr # NULL
    /\ Do([NoCall EXCEPT !.op = "get_size"], filestream_get_size(World))

Flush ==
    /\ stream_ptr # NULL
    /\ \E flush_ok \in BOOLEAN :
          Do([NoCall EXCEPT !.op = "flush"], filestream_flush(World, flush_ok))

Eof ==
    /\ stream_ptr # NULL
    /\ Do([NoCall EXCEPT !.op = "eof"], filestream_eof(World))

Rewind ==
    /\ stream_ptr # NULL
    /\ Do([NoCall EXCEPT !.op = "rewind"], filestream_rewind(World))

Getc ==
    /\ stream_ptr # NULL
    /\ \E char_signed \in BOOLEAN :
          Do([NoCall EXCEPT !.op = "getc"], filestream_getc(World, char_signed))

Gets ==
    /\ stream_ptr # NULL
    /\ \E len \in GetsLens, char_signed \in BOOLEAN :
          Do([NoCall EXCEPT !.op = "gets", !.len = len],
             filestream_gets(World, FALSE, len, char_signed))

Putc ==
    /\ stream_ptr # NULL
    /\ \E c \in PutcChars :
          Do([NoCall EXCEPT !.op = "putc", !.len = c], filestream_putc(World, c))

\* the host installs its interface, once, before any other call
VfsInit ==
    /\ call.op = "none"
    /\ \E version_ok \in BOOLEAN, iface \in {NULL, PTR} :
          filestream_cb' = filestream_vfs_init(version_ok, iface)
    /\ call' = [NoCall EXCEPT !.op = "vfs_init"]
    /\ UNCHANGED <<stream_ptr, stream, file, fpos, fdpos, acc, seekable, ret,
                   out, released, ub, crashed, trip>>

\* read and write handed a null RFILE*
ReadNull ==
    /\ stream_ptr = NULL
    /\ \E s_null \in BOOLEAN, len \in Lens :
          Do([NoCall EXCEPT !.op = "read", !.s_null = s_null, !.len = len],
             filestream_read(World, s_null, len))

WriteNull ==
    /\ stream_ptr = NULL
    /\ \E s_null \in BOOLEAN, data \in WriteBufs :
          Do([NoCall EXCEPT !.op = "write", !.s_null = s_null, !.len = Len(data),
                          !.data = data],
             filestream_write(World, s_null, data))

Init ==
    /\ stream_ptr = NULL
    /\ stream = BlankRFILE
    /\ file \in Files
    /\ fpos = 0
    /\ fdpos = 0
    /\ acc = "none"
    /\ seekable = TRUE
    /\ call = NoCall
    /\ ret = 0
    /\ out = <<>>
    /\ released = <<>>
    /\ ub = FALSE
    /\ crashed = FALSE
    /\ trip = NoTrip
    /\ filestream_cb = NoCallbacks

Next ==
    \/ Open \/ Close \/ Read \/ Write \/ Seek \/ Tell \/ GetSize \/ Flush
    \/ Eof \/ Rewind \/ Getc \/ Gets \/ Putc \/ ReadNull \/ WriteNull

Spec == Init /\ [][Next]_vars

\* the same program with a host that calls filestream_vfs_init first
NextVfs == VfsInit \/ Next
SpecVfs == Init /\ [][NextVfs]_vars

(* ------------------------------ properties ------------------------------ *)
\* the last call was op, on an open handle, and it returned without
\* executing undefined behaviour
Returned(op) == call.op = op /\ stream_ptr # NULL /\ ~ub /\ ~crashed

\* C1: right after a successful open of a regular file of length L, size()
\* returns L, whatever the strategy.
C1_SizeAfterOpen ==
    (Returned("open") /\ seekable) => filestream_get_size(World).ret = Len(file)

\* C2: a read on a Mapped handle at cursor p <= L that asks for more than
\* L - p bytes returns exactly L - p, leaves the cursor at L and delivers the
\* bytes p..L-1 of the file, nothing from offsets >= L.
C2_MappedReadTruncates ==
    [][(/\ stream_ptr # NULL /\ Strategy(stream) = "Mapped"
        /\ stream.mappos <= Len(file)
        /\ call'.op = "read" /\ ~call'.s_null
        /\ call'.len > Len(file) - stream.mappos
        /\ ~crashed')
       => (/\ ret' = Len(file) - stream.mappos
           /\ stream'.mappos = Len(file)
           /\ out' = SubSeq(file, stream.mappos + 1, Len(file))
           /\ ~ub')]_vars

\* C3: tell() returns the handle's current position: the stream position
\* (Buffered), the mapped cursor (Mapped), the descriptor offset (Unbuffered).
C3_TellIsPosition ==
    (Returned("tell") /\ seekable) => ret = Position

\* C4: a seek returns the new absolute position when it succeeds and -1 when
\* it fails, and nothing else.
C4_SeekReturnsPosition ==
    (Returned("seek") /\ seekable) => (ret = -1 \/ ret = Position)

\* C5: seek(handle, -1, Start) returns -1, sets error_flag and leaves the
\* position of the handle (stream, descriptor and mapped cursor) unchanged,
\* for every strategy.
C5_SeekBeforeStartFails ==
    [][(/\ stream_ptr # NULL
        /\ call'.op = "seek" /\ call'.offset = -1 /\ call'.whence = SEEK_SET
        /\ ~ub' /\ ~crashed')
       => (/\ ret' = -1
           /\ stream'.error_flag
           /\ fpos' = fpos /\ fdpos' = fdpos
           /\ stream'.mappos = stream.mappos)]_vars

C5_Witness ==
    /\ Returned("seek") /\ call.offset = -1 /\ call.whence = SEEK_SET
    /\ Strategy(stream) = "Mapped" /\ stream.mappos > 0
    /\ ret = -1 /\ stream.error_flag

\* C6: on a Mapped handle at cursor p, seek(Current, offset) fails (returns
\* -1, cursor kept) when p + offset leaves the range of the cursor type, and
\* otherwise succeeds: it does not return -1, does not set error_flag, and
\* tell() then returns p + offset.  A target above the largest signed
\* position may do either, so that both readings of "representable" pass.
C6_MappedSeekCurrent ==
    [][(/\ stream_ptr # NULL /\ Strategy(stream) = "Mapped"
        /\ call'.op = "seek" /\ call'.whence = SEEK_CUR
        /\ ~crashed')
       => LET t == stream.mappos + call'.offset
              failed == ret' = -1 /\ stream'.error_flag
              succeeded == /\ ret' # -1
                           /\ stream'.error_flag = stream.error_flag
                           /\ filestream_tell(World)'.ret = t
          IN IF t < 0 \/ t > MaxU THEN failed /\ stream'.mappos = stream.mappos
             ELSE IF t <= MaxS THEN succeeded
             ELSE failed \/ succeeded]_vars

\* C7: on a Mapped handle, a seek that returns -1 leaves mapped_position as
\* it was.
C7_FailedMappedSeekKeepsCursor ==
    [][(/\ stream_ptr # NULL /\ Strategy(stream) = "Mapped"
        /\ call'.op = "seek" /\ ~crashed' /\ ret' = -1)
       => stream'.mappos = stream.mappos]_vars

\* C8: error_flag is sticky: once set on an open handle it stays set over
\* every call on that handle other than rewind, and rewind clears it.
C8_ErrorFlagSticky ==
    [][/\ (stream_ptr # NULL /\ stream.error_flag /\ stream_ptr' # NULL
           /\ call'.op # "rewind") => stream'.error_flag
       /\ (stream_ptr # NULL /\ call'.op = "rewind" /\ ~crashed')
             => ~stream'.error_flag]_vars

C8_Witness ==
    /\ Returned("read") /\ seekable /\ ret >= 0 /\ Len(out) > 0
    /\ stream.error_flag

\* C9: whenever read, write, seek, tell, size, flush or put-character on a
\* non-null handle returns -1, error_flag is set when it returns.
C9_FailureSetsErrorFlag ==
    (/\ \E op \in {"read", "write", "seek", "tell", "get_size", "flush", "putc"} :
           Returned(op)
     /\ ret = -1)
    => stream.error_flag

\* C10: read and write with a null handle, or with a null buffer, return -1
\* and have no side effect: nothing is accessed through the null argument,
\* the file is not changed and no position moves.
C10_NullArgumentsFailCleanly ==
    [][(/\ call'.op \in {"read", "write"}
        /\ (stream_ptr = NULL \/ call'.s_null))
       => (/\ ~ub' /\ ~crashed'
           /\ ret' = -1
           /\ file' = file /\ fpos' = fpos /\ fdpos' = fdpos
           /\ stream'.mappos = stream.mappos)]_vars

\* C11: on a Mapped handle every write returns -1, sets error_flag, writes
\* nothing to the file and leaves the mapped cursor and the window unchanged.
C11_WriteWhileMappedFails ==
    [][(/\ stream_ptr # NULL /\ Strategy(stream) = "Mapped"
        /\ call'.op = "write" /\ ~crashed')
       => (/\ ret' = -1
           /\ stream'.error_flag
           /\ file' = file
           /\ stream'.mappos = stream.mappos
           /\ stream'.mapsize = stream.mapsize
           /\ stream'.mapped = stream.mapped
           /\ fdpos' = fdpos
           /\ ~ub')]_vars

C11_Witness ==
    /\ Returned("write") /\ Strategy(stream) = "Mapped"
    /\ call.len > 0 /\ ~call.s_null
    /\ ret = -1 /\ stream.error_flag

\* C12: on a handle that performs no writes (one open for reading only), the
\* end-of-file test returns true exactly when the current position is at
\* or beyond the size recorded at open time.
C12_EofIffPositionAtSize ==
    (Returned("eof") /\ acc = "r")
    => (ret = 1 <=> Position >= stream.size)

\* C13 as stated: on a Buffered or Unbuffered handle, after n bytes were
\* written at the start of the file and the handle was rewound, reading n
\* bytes returns n and yields the bytes written.
C13_RoundTrip ==
    [][(/\ stream_ptr # NULL /\ Strategy(stream) # "Mapped"
        /\ trip.stage = "rewound"
        /\ call'.op = "read" /\ ~call'.s_null /\ call'.len = Len(trip.data)
        /\ ~ub' /\ ~crashed')
       => (ret' = Len(trip.data) /\ out' = trip.data)]_vars

\* C13 amended: the same on a handle whose stream or descriptor is open for
\* reading and writing (Read-Write mode) over a regular file.
C13_RoundTripReadWrite ==
    [][(/\ stream_ptr # NULL /\ Strategy(stream) # "Mapped"
        /\ acc = "rw" /\ seekable
        /\ trip.stage = "rewound"
        /\ call'.op = "read" /\ ~call'.s_null /\ call'.len = Len(trip.data)
        /\ ~ub' /\ ~crashed')
       => (ret' = Len(trip.data) /\ out' = trip.data)]_vars

C13_Witness ==
    /\ Returned("read") /\ Strategy(stream) = "Unbuffered"
    /\ acc = "rw" /\ seekable
    /\ trip = [stage |-> "read", data |-> <<255, 10>>]
    /\ call.len = 2 /\ ret = 2 /\ out = <<255, 10>>

\* C14: open returns no handle when the 16 KiB buffer allocation (Buffered
\* strategy) fails, when the underlying open fails, or when the initial size
\* probe fails; and an open that returns no handle leaves nothing it
\* acquired unreleased.
C14_OpenFailsCleanly ==
    [][(call'.op = "open" /\ ~ub' /\ ~crashed')
       => (/\ stream_ptr' # NULL
              => (/\ Strategy(stream') = "Buffered" => stream'.buf # NULL
                  /\ acc' \in {"r", "w", "rw"}
                  /\ stream'.size # -1)
           /\ (stream_ptr' = NULL /\ acc = "none") => acc' = "none")]_vars

\* C15: once filestream_vfs_init has installed a populated interface of
\* sufficient version, every public operation is carried out by the
\* registered callback and not by the direct logic.
C15_CallbacksCarryOutOperations ==
    (/\ \A n \in CallbackNames : filestream_cb[n] # NULL
     /\ call.op \notin {"none", "vfs_init"})
    => call.via = "callback"

\* C16: every open, over the four access modes and the hint combinations,
\* that returns a handle has selected the strategy the mode and hints call
\* for (no Unbuffered hint: Buffered; Unbuffered hint: Unbuffered; Read mode
\* with the memory-map hint: Mapped, or Unbuffered when the mapping failed),
\* the handle holds that strategy's backing resource, and no later operation
\* changes the strategy.
C16_OneStrategyWithItsResource ==
    [][/\ call'.op = "open"
          => /\ ~ub'
             /\ stream_ptr' # NULL
                => LET s == stream'
                       map_read ==
                          /\ RETRO_VFS_FILE_ACCESS_HINT_MEMORY_MAP \in call'.hints
                          /\ call'.mode = RETRO_VFS_FILE_ACCESS_READ
                   IN /\ map_read => Strategy(s) \in {"Mapped", "Unbuffered"}
                      /\ (~map_read /\ RFILE_HINT_UNBUFFERED \in call'.hints)
                            => Strategy(s) = "Unbuffered"
                      /\ (~map_read /\ RFILE_HINT_UNBUFFERED \notin call'.hints)
                            => Strategy(s) = "Buffered"
                      /\ Strategy(s) = "Buffered" => s.fp # NULL
                      /\ Strategy(s) = "Unbuffered"
                            => s.fd # -1 /\ acc' \in {"r", "w", "rw"}
                      /\ Strategy(s) = "Mapped"
                            => s.mapped \notin {NULL, MAP_FAILED}
       /\ (stream_ptr # NULL /\ stream_ptr' # NULL)
          => Strategy(stream') = Strategy(stream)]_vars

\* C17 as stated: on a Mapped handle, after open and after every completed
\* operation, mapped_position lies in [0, mapped_size].
C17_CursorWithinWindow ==
    (stream_ptr # NULL /\ Strategy(stream) = "Mapped" /\ ~ub /\ ~crashed)
    => (0 <= stream.mappos /\ stream.mappos <= stream.mapsize)

\* C17 amended: on a Mapped handle mapped_position lies in [0, mapped_size]
\* after open, and every operation other than seek that starts with it in
\* that range leaves it there; only a seek takes it past mapped_size.
C17_OnlySeekLeavesWindow ==
    [][(stream_ptr' # NULL /\ Strategy(stream') = "Mapped" /\ ~crashed')
       => LET in_window(s) == 0 <= s.mappos /\ s.mappos <= s.mapsize
          IN /\ call'.op = "open" => in_window(stream')
             /\ (call'.op \notin {"open", "seek"} /\ in_window(stream))
                   => in_window(stream')]_vars

C17_Witness ==
    /\ Returned("read") /\ Strategy(stream) = "Mapped"
    /\ ~call.s_null /\ call.len = MaxU /\ ret = 0
    /\ stream.mappos = stream.mapsize

\* C18: on a Mapped handle with mapped_size S, seek from End with
\* -S <= offset <= 0 succeeds and puts the cursor at S + offset; with
\* offset < -S it is rejected with -1 and the cursor is unchanged.
C18_MappedSeekEnd ==
    [][(/\ stream_ptr # NULL /\ Strategy(stream) = "Mapped"
        /\ call'.op = "seek" /\ call'.whence = SEEK_END /\ ~crashed')
       => LET S == stream.mapsize
              offset == call'.offset
          IN /\ (-S <= offset /\ offset <= 0)
                   => (ret' # -1 /\ stream'.mappos = S + offset)
             /\ offset < -S
                   => (ret' = -1 /\ stream'.mappos = stream.mappos)]_vars

\* C19: read-one-character returns a value different from the end-of-stream
\* sentinel for every byte value it reads, and the sentinel only when no
\* byte could be read.
C19_GetcSentinelOnlyAtEnd ==
    Returned("getc") => (ret = EOF <=> out = <<>>)

\* C20: read-line on a non-null handle returns no result exactly when it
\* placed zero characters in the destination; with one character or more
\* placed, a last line without newline included, it returns a result.
C20_GetsResultIffPlaced ==
    Returned("gets") => (ret = NULL <=> Len(out) = 0)

\* C21: close on a non-null handle, fully opened or left partly initialised
\* by a failed open, releases each resource the handle holds exactly once
\* and in order - the stream, or the mapped window and then the descriptor,
\* then the owned buffer, then the handle - leaves no acquired descriptor
\* open whatever its value, and releases nothing that was never acquired.
C21_CloseReleasesWhatIsHeld ==
    [][/\ (stream_ptr # NULL /\ call'.op = "close" /\ ~crashed')
          => LET s == stream
                 held_stream == s.fp # NULL
                 held_window == s.mapped \notin {NULL, MAP_FAILED}
                 held_fd == s.fp = NULL /\ acc \in {"r", "w", "rw"}
                 expected ==
                    (IF held_stream THEN <<"fclose">> ELSE <<>>)
                    \o (IF held_window THEN <<"munmap">> ELSE <<>>)
                    \o (IF held_fd THEN <<"close">> ELSE <<>>)
                    \o (IF s.buf # NULL THEN <<"free(buf)">> ELSE <<>>)
                    \o <<"free(stream)">>
             IN /\ released' = expected
                /\ acc' = "none"
                /\ stream_ptr' = NULL
       /\ (call'.op = "open" /\ stream_ptr' = NULL /\ ~crashed')
          => /\ \A i \in 1..Len(released') : released'[i] # "munmap(NULL)"
             /\ acc = "none" => acc' = "none"]_vars

====
